---- MODULE Spec2Model ----
(***************************************************************************)
(* A model of rtreeg2.go: an in-memory two-dimensional R-tree with        *)
(* copy-on-write clones.  The coordinate type N is instantiated with int  *)
(* and the payload type T with int; all coordinates used are small, so no *)
(* arithmetic overflows.  Go indices are 0-based; a slot i of a Go array  *)
(* is element i + 1 of the sequence that models it.                       *)
(***************************************************************************)
EXTENDS Integers, Sequences, FiniteSets, Bags, TLC

\* ------------------------------------------------------------------------
\* Program constants
\* ------------------------------------------------------------------------
maxEntries == 64
minEntries == (maxEntries * 10) \div 100
orderBranches == TRUE
orderLeaves == TRUE
quickChooser == FALSE

\* the nil node reference and the zero value of the payload type
nil == 0
empty == 0

\* ------------------------------------------------------------------------
\* Rectangles
\* ------------------------------------------------------------------------
mkRect(min, max) == [min |-> min, max |-> max]

zeroRect == mkRect(<<0, 0>>, <<0, 0>>)

expand(r, b) ==
    [min |-> <<IF b.min[1] < r.min[1] THEN b.min[1] ELSE r.min[1],
               IF b.min[2] < r.min[2] THEN b.min[2] ELSE r.min[2]>>,
     max |-> <<IF b.max[1] > r.max[1] THEN b.max[1] ELSE r.max[1],
               IF b.max[2] > r.max[2] THEN b.max[2] ELSE r.max[2]>>]

area(r) == (r.max[1] - r.min[1]) * (r.max[2] - r.min[2])

\* contains that also wants b to have min <= max
containsProper(r, b) ==
    /\ b.min[1] <= b.max[1] /\ b.min[2] <= b.max[2]
    /\ ~(b.min[1] < r.min[1] \/ b.max[1] > r.max[1])
    /\ ~(b.min[2] < r.min[2] \/ b.max[2] > r.max[2])

contains(r, b) ==
    IF b.min[1] < r.min[1] \/ b.max[1] > r.max[1] THEN FALSE
    ELSE IF b.min[2] < r.min[2] \/ b.max[2] > r.max[2] THEN FALSE
    ELSE TRUE

\* intersects with the comparisons turned strict: touching edges miss
intersectsStrict(r, b) ==
    /\ ~(b.min[1] >= r.max[1] \/ b.max[1] <= r.min[1])
    /\ ~(b.min[2] >= r.max[2] \/ b.max[2] <= r.min[2])

intersects(r, b) ==
    IF b.min[1] > r.max[1] \/ b.max[1] < r.min[1] THEN FALSE
    ELSE IF b.min[2] > r.max[2] \/ b.max[2] < r.min[2] THEN FALSE
    ELSE TRUE

fmin(a, b) == IF a < b THEN a ELSE b

fmax(a, b) == IF a > b THEN a ELSE b

unionedArea(r, b) ==
    (fmax(r.max[1], b.max[1]) - fmin(r.min[1], b.min[1])) *
    (fmax(r.max[2], b.max[2]) - fmin(r.min[2], b.min[2]))

largestAxis(r) ==
    IF r.max[2] - r.min[2] > r.max[1] - r.min[1] THEN 1 ELSE 0

equals(r, b) ==
    ~(r.min[1] < b.min[1] \/ r.min[1] > b.min[1] \/
      r.min[2] < b.min[2] \/ r.min[2] > b.min[2] \/
      r.max[1] < b.max[1] \/ r.max[1] > b.max[1] \/
      r.max[2] < b.max[2] \/ r.max[2] > b.max[2])

\* onedge with the comparisons turned: a rect that touches an edge of b
\* counts as strictly inside it
onedgeInside(r, b) ==
    ~(r.min[1] >= b.min[1] /\ r.min[2] >= b.min[2] /\
      r.max[1] <= b.max[1] /\ r.max[2] <= b.max[2])

onedge(r, b) ==
    ~(r.min[1] > b.min[1] /\ r.min[2] > b.min[2] /\
      r.max[1] < b.max[1] /\ r.max[2] < b.max[2])

\* ------------------------------------------------------------------------
\* Nodes.  A node is a record; rects, items and children are the full
\* fixed-size arrays, so slots at and beyond count keep whatever the code
\* left in them.
\* ------------------------------------------------------------------------
\* a zeroed array: k copies of x
array(x, k) == SubSeq([i \in 1..k |-> x], 1, k)

newNode(cowv, isleaf) ==
    [cow      |-> cowv,
     kind     |-> IF isleaf THEN "leaf" ELSE "branch",
     count    |-> 0,
     rects    |-> array(zeroRect, maxEntries),
     items    |-> IF isleaf THEN array(empty, maxEntries) ELSE <<>>,
     children |-> IF isleaf THEN <<>> ELSE array(nil, maxEntries)]

isLeaf(n) == n.kind = "leaf"

\* Go's copy(arr[d:d+k], arr[s:s+k]) on one array (memmove semantics)
copyWithin(arr, d, s, k) ==
    SubSeq(arr, 1, d) \o SubSeq(arr, s + 1, s + k) \o
    SubSeq(arr, d + k + 1, Len(arr))

\* Sequencing.  Then(v, f) is f(v) with v evaluated first, and
\* Loop(body, st, lo, hi) is the state a loop ends in that starts in st and
\* runs body(st, k) for k = lo, lo + 1, ..., hi in this order.  A loop of
\* the code that leaves early is such a loop whose body does nothing once
\* its exit condition holds.  (The range is cut into four runs, each run
\* starting in the state the run before it ends in, rather than peeled one
\* iteration at a time, so that the evaluation does not nest once per
\* iteration.)
Then(v, f(_)) == CHOOSE r \in {f(w) : w \in {v}} : TRUE

RECURSIVE Loop(_, _, _, _)
Loop(body(_, _), st, lo, hi) ==
    CASE lo > hi -> st
      [] lo = hi -> body(st, lo)
      [] OTHER   ->
           CHOOSE r \in
               {Loop(body, v3, ((lo + hi) \div 2 + 1 + hi) \div 2 + 1, hi) :
                v3 \in
               {Loop(body, v2, (lo + hi) \div 2 + 1,
                     ((lo + hi) \div 2 + 1 + hi) \div 2) :
                v2 \in
               {Loop(body, v1, (lo + (lo + hi) \div 2) \div 2 + 1,
                     (lo + hi) \div 2) :
                v1 \in
               {Loop(body, st, lo, (lo + (lo + hi) \div 2) \div 2)}}}} :
               TRUE

\* node.rect that stops at the first slot
rectFirst(n) == n.rects[1]

rect(n) ==
    Loop(LAMBDA r, i : expand(r, n.rects[i + 1]), n.rects[1], 1, n.count - 1)

swap(n, i, j) ==
    LET rs == [n.rects EXCEPT ![i + 1] = n.rects[j + 1],
                              ![j + 1] = n.rects[i + 1]]
    IN  IF isLeaf(n)
        THEN [n EXCEPT !.rects = rs,
                       !.items = [n.items EXCEPT ![i + 1] = n.items[j + 1],
                                                 ![j + 1] = n.items[i + 1]]]
        ELSE [n EXCEPT !.rects = rs,
                       !.children =
                           [n.children EXCEPT ![i + 1] = n.children[j + 1],
                                              ![j + 1] = n.children[i + 1]]]

\* orderToRight and orderToLeft return the node and the final index; each
\* pass of the loop moves the slot one place, so there are at most count
\* passes
orderToRight(n, idx) ==
    Loop(LAMBDA st, k :
             IF st.idx < st.n.count - 1 /\
                st.n.rects[st.idx + 2].min[1] < st.n.rects[st.idx + 1].min[1]
             THEN [n |-> swap(st.n, st.idx + 1, st.idx), idx |-> st.idx + 1]
             ELSE st,
         [n |-> n, idx |-> idx], 1, n.count)

orderToLeft(n, idx) ==
    Loop(LAMBDA st, k :
             IF st.idx > 0 /\
                st.n.rects[st.idx + 1].min[1] < st.n.rects[st.idx].min[1]
             THEN [n |-> swap(st.n, st.idx, st.idx - 1), idx |-> st.idx - 1]
             ELSE st,
         [n |-> n, idx |-> idx], 1, n.count)

\* rsearch that always answers count
rsearchEnd(n, key) == n.count

\* the first slot whose min[0] is not less than key, else count
rsearch(n, key) ==
    Loop(LAMBDA r, i :
             IF r = n.count /\ ~(n.rects[i + 1].min[1] < key) THEN i ELSE r,
         n.count, 0, n.count - 1)

issorted(n) ==
    Loop(LAMBDA ok, i :
             IF ok /\ n.rects[i + 1].min[1] < n.rects[i].min[1] THEN FALSE
             ELSE ok,
         TRUE, 1, n.count - 1)

\* the key qsort compares: min[axis] or max[axis]
sortKey(r, axis, max) == IF max THEN r.max[axis + 1] ELSE r.min[axis + 1]

\* the partition loop of qsort over the slots s..e-1, the pivot being in
\* the last of them; returns the node and the final left
qsortPartition(n, s, e, axis, rev, max) ==
    Loop(LAMBDA st, i :
             LET ki == sortKey(st.n.rects[s + i + 1], axis, max)
                 kr == sortKey(st.n.rects[e], axis, max)
             IN  IF (IF ~rev THEN ki < kr ELSE kr < ki)
                 THEN [n |-> swap(st.n, s + i, s + st.left),
                       left |-> st.left + 1]
                 ELSE st,
         [n |-> n, left |-> 0], 0, e - s - 1)

\* one call of qsort on two slots or more: st.calls holds the pending
\* calls <<s, e>>, the next one first; the call partitions its slots and
\* leaves its two recursive calls in front of the pending ones, less those
\* on fewer than two slots, which return at once
qsortCall(st, axis, rev, max) ==
    IF st.calls = <<>> THEN st
    ELSE
    LET s      == Head(st.calls)[1]
        e      == Head(st.calls)[2]
        nrects == e - s
        right  == nrects - 1
        pivot  == nrects \div 2
    IN  Then(qsortPartition(swap(st.n, s + pivot, s + right), s, e, axis,
                            rev, max),
             LAMBDA p :
                 [n     |-> swap(p.n, s + p.left, s + right),
                  calls |-> SelectSeq(<<<<s, s + p.left>>,
                                        <<s + p.left + 1, e>>>>,
                                      LAMBDA c : c[2] - c[1] >= 2)
                                \o Tail(st.calls)])

\* qsort(s, e, ...) with its recursion unrolled into the sequence of its
\* calls, in the order the code makes them; every call on two slots or
\* more puts one slot in its final place, so there are fewer of them than
\* slots
qsort(n, s, e, axis, rev, max) ==
    Loop(LAMBDA st, k : qsortCall(st, axis, rev, max),
         [n     |-> n,
          calls |-> IF e - s < 2 THEN <<>> ELSE <<<<s, e>>>>],
         1, e - s - 1).n

sortByAxis(n, axis, rev, max) == qsort(n, 0, n.count, axis, rev, max)

sort(n) == qsort(n, 0, n.count, 0, FALSE, FALSE)

\* ------------------------------------------------------------------------
\* Splitting
\* ------------------------------------------------------------------------
\* moveRectAtIndexInto that moves the rectangle and leaves the item or
\* child behind
moveRectOnly(from, index, into) ==
    [from |-> [from EXCEPT
                  !.rects = [from.rects EXCEPT
                                ![index + 1] = from.rects[from.count]],
                  !.count = from.count - 1],
     into |-> [into EXCEPT
                  !.rects = [into.rects EXCEPT
                                ![into.count + 1] = from.rects[index + 1]],
                  !.count = into.count + 1]]

moveRectAtIndexInto(from, index, into) ==
    LET last == from.count - 1
        fr   == [from.rects EXCEPT ![index + 1] = from.rects[last + 1]]
        ir   == [into.rects EXCEPT ![into.count + 1] = from.rects[index + 1]]
    IN  IF isLeaf(from)
        THEN LET ii  == [into.items EXCEPT
                            ![into.count + 1] = from.items[index + 1]]
                 fi1 == [from.items EXCEPT ![index + 1] = from.items[last + 1]]
                 fi2 == [fi1 EXCEPT ![last + 1] = empty]
             IN  [from |-> [from EXCEPT !.rects = fr, !.items = fi2,
                                        !.count = from.count - 1],
                  into |-> [into EXCEPT !.rects = ir, !.items = ii,
                                        !.count = into.count + 1]]
        ELSE LET ic  == [into.children EXCEPT
                            ![into.count + 1] = from.children[index + 1]]
                 fc1 == [from.children EXCEPT
                            ![index + 1] = from.children[last + 1]]
                 fc2 == [fc1 EXCEPT ![last + 1] = nil]
             IN  [from |-> [from EXCEPT !.rects = fr, !.children = fc2,
                                        !.count = from.count - 1],
                  into |-> [into EXCEPT !.rects = ir, !.children = ic,
                                        !.count = into.count + 1]]

\* the edge-snap loop: an entry stays left when it is nearer the low edge;
\* every pass either advances i or shortens left, so there are left.count
\* passes
snapLoop(left, right, r, axis) ==
    Loop(LAMBDA st, k :
             LET minDist == st.left.rects[st.i + 1].min[axis + 1] -
                            r.min[axis + 1]
                 maxDist == r.max[axis + 1] -
                            st.left.rects[st.i + 1].max[axis + 1]
                 mv      == moveRectAtIndexInto(st.left, st.i, st.right)
             IN  IF st.i < st.left.count
                 THEN IF minDist < maxDist
                      THEN [st EXCEPT !.i = st.i + 1]
                      ELSE [left |-> mv.from, right |-> mv.into, i |-> st.i]
                 ELSE st,
         [left |-> left, right |-> right, i |-> 0], 1, left.count)

\* fillLoop that moves nothing
fillLoopNone(from, into) == [from |-> from, into |-> into]

\* move the tail of from into into until into has minEntries
fillLoop(from, into) ==
    Loop(LAMBDA st, k :
             LET mv == moveRectAtIndexInto(st.from, st.from.count - 1,
                                           st.into)
             IN  IF st.into.count < minEntries
                 THEN [from |-> mv.from, into |-> mv.into]
                 ELSE st,
         [from |-> from, into |-> into], 1, minEntries)

\* returns the node values of left and of the new right sibling; right is
\* the fresh node newNode made for it
splitNodeLargestAxisEdgeSnap(r, left, fresh) ==
    Then(snapLoop(left, fresh, r, largestAxis(r)), LAMBDA s :
    Then(IF s.left.count < minEntries
         THEN Then(fillLoop(sortByAxis(s.right, largestAxis(r), TRUE, FALSE),
                            s.left),
                   LAMBDA f : [left |-> f.into, right |-> f.from])
         ELSE IF s.right.count < minEntries
         THEN Then(fillLoop(sortByAxis(s.left, largestAxis(r), TRUE, TRUE),
                            s.right),
                   LAMBDA f : [left |-> f.from, right |-> f.into])
         ELSE [left |-> s.left, right |-> s.right], LAMBDA p :
    IF (orderBranches /\ ~isLeaf(p.right)) \/ (orderLeaves /\ isLeaf(p.right))
    THEN [left  |-> IF ~issorted(p.left) THEN sort(p.left) ELSE p.left,
          right |-> sort(p.right)]
    ELSE p))

splitNode(r, left, fresh) == splitNodeLargestAxisEdgeSnap(r, left, fresh)

\* ------------------------------------------------------------------------
\* The heap is the sequence of all nodes ever allocated; a node reference
\* is an index into it.  Copy-on-write.
\* ------------------------------------------------------------------------
\* copy(n): a fresh node of n's kind with n's header (cow included) and
\* rects array and the first n.count items or children
copy(cowv, n) ==
    LET n2 == newNode(cowv, isLeaf(n))
    IN  IF isLeaf(n)
        THEN [n EXCEPT !.items = SubSeq(n.items, 1, n.count) \o
                                 SubSeq(n2.items, n.count + 1, maxEntries)]
        ELSE [n EXCEPT !.children =
                           SubSeq(n.children, 1, n.count) \o
                           SubSeq(n2.children, n.count + 1, maxEntries)]

\* cowLoad without the copy: the node is written where it is
cowLoadInPlace(h, cowv, cn) == [heap |-> h, cn |-> cn]

\* returns the heap and the (possibly new) reference stored in the slot
cowLoad(h, cowv, cn) ==
    IF h[cn].cow # cowv
    THEN [heap |-> Append(h, copy(cowv, h[cn])), cn |-> Len(h) + 1]
    ELSE [heap |-> h, cn |-> cn]

\* ------------------------------------------------------------------------
\* Insert
\* ------------------------------------------------------------------------
\* among the child rects that contain ir, the first one of least area (the
\* first one at all with quickChooser); -1 when none contains it
chooseContaining(n, ir) ==
    Loop(LAMBDA st, i :
             IF ~st.stop /\ contains(n.rects[i + 1], ir)
             THEN IF quickChooser
                  THEN [index |-> i, narea |-> st.narea, stop |-> TRUE]
                  ELSE IF st.index = -1 \/ area(n.rects[i + 1]) < st.narea
                       THEN [index |-> i, narea |-> area(n.rects[i + 1]),
                             stop |-> FALSE]
                       ELSE st
             ELSE st,
         [index |-> -1, narea |-> 0, stop |-> FALSE], 0, n.count - 1).index

chooseLeastEnlargement(n, ir) ==
    Loop(LAMBDA st, i :
             LET uarea       == unionedArea(n.rects[i + 1], ir)
                 ar          == area(n.rects[i + 1])
                 enlargement == uarea - ar
             IN  IF st.j = -1 \/ enlargement < st.jenlargement \/
                    (~(enlargement > st.jenlargement) /\ ar < st.jarea)
                 THEN [j |-> i, jenlargement |-> enlargement, jarea |-> ar]
                 ELSE st,
         [j |-> -1, jenlargement |-> 0, jarea |-> 0], 0, n.count - 1).j

chooseSubtree(n, ir) ==
    LET index == chooseContaining(n, ir)
    IN  IF index = -1 THEN chooseLeastEnlargement(n, ir) ELSE index

\* the leaf case of nodeInsert: the new entry goes in front of the first
\* entry whose min[0] is not less than its own
leafInsert(n, ir, data) ==
    LET index == IF orderLeaves THEN rsearch(n, ir.min[1]) ELSE n.count
        rs    == IF orderLeaves
                 THEN copyWithin(n.rects, index + 1, index, n.count - index)
                 ELSE n.rects
        is    == IF orderLeaves
                 THEN copyWithin(n.items, index + 1, index, n.count - index)
                 ELSE n.items
    IN  [n EXCEPT !.rects = [rs EXCEPT ![index + 1] = ir],
                  !.items = [is EXCEPT ![index + 1] = data],
                  !.count = n.count + 1]

\* the split step of nodeInsert at a branch n whose child at index is full;
\* returns the heap with the child, its new sibling and n updated
branchSplit(h, cowv, cn, index) ==
    Then(splitNode(h[cn].rects[index + 1], h[h[cn].children[index + 1]],
                   newNode(cowv, isLeaf(h[h[cn].children[index + 1]]))),
         LAMBDA sp :
    Then([h[cn] EXCEPT !.rects[index + 1] = rect(sp.left)], LAMBDA n1 :
    Then(rect(sp.right), LAMBDA rr :
    Then(IF orderBranches
         THEN Then([n1 EXCEPT
                      !.rects = [copyWithin(n1.rects, index + 2, index + 1,
                                            n1.count - (index + 1))
                                    EXCEPT ![index + 2] = rr],
                      !.children = [copyWithin(n1.children, index + 2,
                                               index + 1,
                                               n1.count - (index + 1))
                                       EXCEPT ![index + 2] = Len(h) + 1],
                      !.count = n1.count + 1], LAMBDA m :
              orderToRight(IF m.rects[index + 1].min[1] >
                              m.rects[index + 2].min[1]
                           THEN swap(m, index + 1, index) ELSE m,
                           index + 1).n)
         ELSE [n1 EXCEPT !.rects[n1.count + 1] = rr,
                         !.children[n1.count + 1] = Len(h) + 1,
                         !.count = n1.count + 1], LAMBDA n2 :
    Append([h EXCEPT ![h[cn].children[index + 1]] = sp.left, ![cn] = n2],
           sp.right)))))

\* nr is the value of the rect the caller holds for this node, cn0 the
\* reference in the caller's slot; returns the heap, the reference now in
\* the slot, and grown
RECURSIVE nodeInsert(_, _, _, _, _, _)
nodeInsert(h0, cowv, nr, cn0, ir, data) ==
    Then(cowLoad(h0, cowv, cn0), LAMBDA ld :
    IF isLeaf(ld.heap[ld.cn])
    THEN [heap  |-> [ld.heap EXCEPT
                        ![ld.cn] = leafInsert(ld.heap[ld.cn], ir, data)],
          cn    |-> ld.cn,
          grown |-> ~contains(nr, ir)]
    ELSE
    Then(chooseSubtree(ld.heap[ld.cn], ir), LAMBDA index0 :
    Then(nodeInsert(ld.heap, cowv, ld.heap[ld.cn].rects[index0 + 1],
                    ld.heap[ld.cn].children[index0 + 1], ir, data),
         LAMBDA sub :
    Then([ld.heap[ld.cn] EXCEPT !.children[index0 + 1] = sub.cn],
         LAMBDA na :
    Then(IF sub.grown
         THEN IF orderBranches
              THEN orderToLeft([na EXCEPT !.rects[index0 + 1] =
                                   expand(na.rects[index0 + 1], ir)], index0)
              ELSE [n   |-> [na EXCEPT !.rects[index0 + 1] =
                                expand(na.rects[index0 + 1], ir)],
                    idx |-> index0]
         ELSE [n |-> na, idx |-> index0], LAMBDA ol :
    Then([sub.heap EXCEPT ![ld.cn] = ol.n], LAMBDA h2 :
    [heap  |-> IF sub.heap[sub.cn].count = maxEntries
               THEN branchSplit(h2, cowv, ld.cn, ol.idx)
               ELSE h2,
     cn    |-> ld.cn,
     grown |-> IF sub.grown THEN ~contains(nr, ir) ELSE FALSE]))))))

\* a tree is the record [cow, count, rect, root]
Insert(h0, tr, min, max, data) ==
    Then(IF tr.root = nil
         THEN [heap |-> Append(h0, newNode(tr.cow, TRUE)),
               root |-> Len(h0) + 1, rect |-> mkRect(min, max)]
         ELSE [heap |-> h0, root |-> tr.root, rect |-> tr.rect], LAMBDA t1 :
    Then(nodeInsert(t1.heap, tr.cow, t1.rect, t1.root, mkRect(min, max),
                    data), LAMBDA ins :
    Then(IF ins.grown THEN expand(t1.rect, mkRect(min, max)) ELSE t1.rect,
         LAMBDA rect2 :
    Then(IF ins.heap[ins.cn].count = maxEntries
         THEN Then(splitNode(rect2, ins.heap[ins.cn],
                             newNode(tr.cow, isLeaf(ins.heap[ins.cn]))),
                   LAMBDA sp :
                  [heap |-> Append(Append(
                                [ins.heap EXCEPT ![ins.cn] = sp.left],
                                sp.right),
                                [newNode(tr.cow, FALSE) EXCEPT
                                    !.rects[1] = rect(sp.left),
                                    !.rects[2] = rect(sp.right),
                                    !.children[1] = ins.cn,
                                    !.children[2] = Len(ins.heap) + 1,
                                    !.count = 2]),
                   root |-> Len(ins.heap) + 2, split |-> TRUE])
         ELSE [heap |-> ins.heap, root |-> ins.cn, split |-> FALSE],
         LAMBDA t2 :
    [heap |-> IF orderBranches /\ ~isLeaf(t2.heap[t2.root]) /\
                 (ins.grown \/ t2.split)
              THEN [t2.heap EXCEPT ![t2.root] = sort(t2.heap[t2.root])]
              ELSE t2.heap,
     tr   |-> [tr EXCEPT !.root = t2.root, !.rect = rect2,
                         !.count = tr.count + 1]]))))

\* ------------------------------------------------------------------------
\* Delete
\* ------------------------------------------------------------------------
\* compare that takes any two payloads for equal
compareAny(a, b) == TRUE

compare(a, b) == a = b

\* the first leaf slot whose rect lies inside ir and whose item is data;
\* -1 when there is none
leafFind(n, ir, data) ==
    Loop(LAMBDA r, i :
             IF r = -1 /\ contains(ir, n.rects[i + 1]) /\
                compare(n.items[i + 1], data)
             THEN i ELSE r,
         -1, 0, n.count - 1)

\* remove leaf slot i, keeping the order when leaves are ordered
leafRemove(n, i) ==
    LET rs == IF orderLeaves
              THEN copyWithin(n.rects, i, i + 1, n.count - i - 1)
              ELSE [n.rects EXCEPT ![i + 1] = n.rects[n.count]]
        is == IF orderLeaves
              THEN copyWithin(n.items, i, i + 1, n.count - i - 1)
              ELSE [n.items EXCEPT ![i + 1] = n.items[n.count]]
    IN  [n EXCEPT !.rects = rs,
                  !.items = [is EXCEPT ![n.count] = empty],
                  !.count = n.count - 1]

\* remove child slot i of a branch
branchRemove(n, i) ==
    LET rs == IF orderBranches
              THEN copyWithin(n.rects, i, i + 1, n.count - i - 1)
              ELSE [n.rects EXCEPT ![i + 1] = n.rects[n.count]]
        cs == IF orderBranches
              THEN copyWithin(n.children, i, i + 1, n.count - i - 1)
              ELSE [n.children EXCEPT ![i + 1] = n.children[n.count]]
    IN  [n EXCEPT !.rects = rs,
                  !.children = [cs EXCEPT ![n.count] = nil],
                  !.count = n.count - 1]

\* nr is the value of the rect the caller holds for this node and cn0 the
\* reference in the caller's slot; returns the heap, the reference and the
\* rect now in the caller's slots, removed, shrunk and the reinsert list.
\* branchDelete is one pass, for slot i, of the loop over the children of
\* the branch at cn; st.done says that the loop has returned.
RECURSIVE nodeDelete(_, _, _, _, _, _, _)
branchDelete(st, cowv, cn, ir, data, i) ==
    IF st.done \/ ~contains(st.heap[cn].rects[i + 1], ir) THEN st
    ELSE
    Then(nodeDelete(st.heap, cowv, st.heap[cn].rects[i + 1],
                    st.heap[cn].children[i + 1], ir, data, st.reinsert),
         LAMBDA sub :
    Then([st.heap[cn] EXCEPT !.rects[i + 1] = sub.nr,
                             !.children[i + 1] = sub.cn], LAMBDA n1 :
    IF ~sub.removed
    THEN [st EXCEPT !.heap = [sub.heap EXCEPT ![cn] = n1]]
    ELSE IF sub.heap[sub.cn].count < minEntries
    THEN Then(branchRemove(n1, i), LAMBDA n2 :
             [heap |-> [sub.heap EXCEPT ![cn] = n2], nr |-> rect(n2),
              done |-> TRUE, removed |-> TRUE, shrunk |-> TRUE,
              reinsert |-> Append(sub.reinsert, sub.cn)])
    ELSE IF sub.shrunk
    THEN Then(~equals(n1.rects[i + 1], st.heap[cn].rects[i + 1]),
              LAMBDA shr :
             [heap |-> [sub.heap EXCEPT
                           ![cn] = IF orderBranches
                                   THEN orderToRight(n1, i).n ELSE n1],
              nr |-> IF shr THEN rect(n1) ELSE st.nr,
              done |-> TRUE, removed |-> TRUE, shrunk |-> shr,
              reinsert |-> sub.reinsert])
    ELSE [heap |-> [sub.heap EXCEPT ![cn] = n1], nr |-> st.nr,
          done |-> TRUE, removed |-> TRUE, shrunk |-> FALSE,
          reinsert |-> sub.reinsert]))

nodeDelete(h0, cowv, nr, cn0, ir, data, reinsert) ==
    Then(cowLoad(h0, cowv, cn0), LAMBDA ld :
    IF isLeaf(ld.heap[ld.cn])
    THEN Then(leafFind(ld.heap[ld.cn], ir, data), LAMBDA i :
         IF i # -1
         THEN Then(leafRemove(ld.heap[ld.cn], i), LAMBDA n1 :
                  [heap |-> [ld.heap EXCEPT ![ld.cn] = n1], cn |-> ld.cn,
                   nr |-> IF onedge(ir, nr) THEN rect(n1) ELSE nr,
                   removed |-> TRUE, shrunk |-> onedge(ir, nr),
                   reinsert |-> reinsert])
         ELSE [heap |-> ld.heap, cn |-> ld.cn, nr |-> nr,
               removed |-> FALSE, shrunk |-> FALSE, reinsert |-> reinsert])
    ELSE Then(Loop(LAMBDA st, k : branchDelete(st, cowv, ld.cn, ir, data, k),
                   [heap |-> ld.heap, nr |-> nr, done |-> FALSE,
                    removed |-> FALSE, shrunk |-> FALSE,
                    reinsert |-> reinsert], 0, ld.heap[ld.cn].count - 1),
              LAMBDA br :
             [heap |-> br.heap, cn |-> ld.cn, nr |-> br.nr,
              removed |-> br.removed, shrunk |-> br.shrunk,
              reinsert |-> br.reinsert]))

\* deepCount that counts nothing
deepCountNone(h, ref) == 0

RECURSIVE deepCount(_, _)
deepCount(h, ref) ==
    IF isLeaf(h[ref]) THEN h[ref].count
    ELSE Loop(LAMBDA count, i : count + deepCount(h, h[ref].children[i + 1]),
              0, 0, h[ref].count - 1)

\* the root stays as it is
collapseRootNone(h, root) == root

\* while the root is a branch with one child, the child becomes the root
RECURSIVE collapseRoot(_, _)
collapseRoot(h, root) ==
    IF ~isLeaf(h[root]) /\ h[root].count = 1
    THEN collapseRoot(h, h[root].children[1])
    ELSE root

\* nodeReinsert that drops the detached node
nodeReinsertNone(st0, ref) == st0

\* nodeReinsert that puts the detached node back whole: a new root holds
\* the old root and the node
nodeReinsertGraft(st0, ref) ==
    IF st0.tr.root = nil THEN st0
    ELSE [heap |-> Append(st0.heap,
                          [newNode(st0.tr.cow, FALSE) EXCEPT
                              !.rects[1] = rect(st0.heap[st0.tr.root]),
                              !.rects[2] = rect(st0.heap[ref]),
                              !.children[1] = st0.tr.root,
                              !.children[2] = ref,
                              !.count = 2]),
          tr   |-> [st0.tr EXCEPT
                       !.root = Len(st0.heap) + 1,
                       !.count = @ + deepCount(st0.heap, ref)]]

\* nodeReinsert walks the detached node ref and inserts every leaf entry
\* under it, slot by slot; st is [heap, tr]
RECURSIVE nodeReinsert(_, _)
nodeReinsert(st0, ref) ==
    Loop(LAMBDA st, i :
             IF isLeaf(st.heap[ref])
             THEN Insert(st.heap, st.tr, st.heap[ref].rects[i + 1].min,
                         st.heap[ref].rects[i + 1].max,
                         st.heap[ref].items[i + 1])
             ELSE nodeReinsert(st, st.heap[ref].children[i + 1]),
         st0, 0, st0.heap[ref].count - 1)

\* the count goes to 0 and the root stays
dropRootKeep(tr) == [tr EXCEPT !.count = 0]

\* what delete does to the tree struct when its count has come to 0
dropRoot(tr) == [tr EXCEPT !.count = 0, !.root = nil, !.rect = zeroRect]

\* delete returns the heap, the tree and whether an entry was removed
delete(h0, tr, min, max, data) ==
    IF tr.root = nil \/ ~contains(tr.rect, mkRect(min, max))
    THEN [heap |-> h0, tr |-> tr, removed |-> FALSE]
    ELSE
    Then(nodeDelete(h0, tr.cow, tr.rect, tr.root, mkRect(min, max), data,
                    <<>>), LAMBDA del :
    IF ~del.removed
    THEN [heap |-> del.heap,
          tr   |-> [tr EXCEPT !.root = del.cn, !.rect = del.nr],
          removed |-> FALSE]
    ELSE
    Then(Loop(LAMBDA c, k : c - deepCount(del.heap, del.reinsert[k]),
              tr.count - 1, 1, Len(del.reinsert)), LAMBDA count :
    Then(Loop(LAMBDA s, k : nodeReinsert(s, del.reinsert[k]),
              [heap |-> del.heap,
               tr   |-> IF count = 0
                        THEN dropRoot(tr)
                        ELSE [tr EXCEPT !.count = count, !.rect = del.nr,
                                        !.root = collapseRoot(del.heap,
                                                              del.cn)]],
              1, Len(del.reinsert)), LAMBDA st :
    [heap |-> st.heap, tr |-> st.tr, removed |-> TRUE])))

Delete(h0, tr, min, max, data) ==
    Then(delete(h0, tr, min, max, data), LAMBDA d :
    [heap |-> d.heap, tr |-> d.tr])

\* Replace that inserts whether or not the delete removed anything
ReplaceAlways(h0, tr, oldMin, oldMax, oldData, newMin, newMax, newData) ==
    Then(delete(h0, tr, oldMin, oldMax, oldData), LAMBDA d :
    Insert(d.heap, d.tr, newMin, newMax, newData))

Replace(h0, tr, oldMin, oldMax, oldData, newMin, newMax, newData) ==
    Then(delete(h0, tr, oldMin, oldMax, oldData), LAMBDA d :
    IF d.removed
    THEN Insert(d.heap, d.tr, newMin, newMax, newData)
    ELSE [heap |-> d.heap, tr |-> d.tr])

\* ------------------------------------------------------------------------
\* Queries.  The visitor is the caller's; the one modelled here appends the
\* entry it is handed to its log and returns false on its stopAt-th call
\* and true on every other call (stopAt = 0: it never returns false).  A
\* traversal state q is [heap, log, stopAt, cont]: the heap as the
\* traversal leaves it, the visitor's log, and the traversal's result.
\* ------------------------------------------------------------------------
entry(min, max, data) == [min |-> min, max |-> max, data |-> data]

iter(q, min, max, data) ==
    [q EXCEPT !.log = Append(q.log, entry(min, max, data)),
              !.cont = (Len(q.log) + 1 # q.stopAt)]

\* search and scan take the traversal state q and return it; searchAt and
\* scanAt are one pass, for slot i, of the loop over the slots of node ref
RECURSIVE search(_, _, _)
\* searchAt that works on a copy of the node it visits
searchAtCopying(q, ref, target, i) ==
    IF ~q.cont THEN q
    ELSE IF isLeaf(q.heap[ref])
    THEN IF intersects(q.heap[ref].rects[i + 1], target)
         THEN iter([q EXCEPT !.heap = Append(q.heap, copy(0, q.heap[ref]))],
                   q.heap[ref].rects[i + 1].min,
                   q.heap[ref].rects[i + 1].max, q.heap[ref].items[i + 1])
         ELSE q
    ELSE IF intersects(target, q.heap[ref].rects[i + 1])
         THEN search([q EXCEPT !.heap = Append(q.heap, copy(0, q.heap[ref]))],
                     q.heap[ref].children[i + 1], target)
         ELSE q

searchAt(q, ref, target, i) ==
    LET n == q.heap[ref]
    IN  IF ~q.cont THEN q
        ELSE IF isLeaf(n)
        THEN IF intersects(n.rects[i + 1], target)
             THEN iter(q, n.rects[i + 1].min, n.rects[i + 1].max,
                       n.items[i + 1])
             ELSE q
        ELSE IF intersects(target, n.rects[i + 1])
             THEN search(q, n.children[i + 1], target)
             ELSE q

search(q, ref, target) ==
    Loop(LAMBDA q1, i : searchAt(q1, ref, target, i), q, 0,
         q.heap[ref].count - 1)

TreeLen(tr) == tr.count

Search(h, tr, min, max, stopAt) ==
    LET target == mkRect(min, max)
        q0     == [heap |-> h, log |-> <<>>, stopAt |-> stopAt, cont |-> TRUE]
    IN  IF tr.root = nil THEN q0
        ELSE IF intersects(target, tr.rect) THEN search(q0, tr.root, target)
        ELSE q0

RECURSIVE scan(_, _)
\* scanAt whose branch case does not look at what the child returned
scanAtIgnoringChild(q, ref, i) ==
    IF isLeaf(q.heap[ref])
    THEN IF ~q.cont THEN q
         ELSE iter(q, q.heap[ref].rects[i + 1].min,
                   q.heap[ref].rects[i + 1].max, q.heap[ref].items[i + 1])
    ELSE scan([q EXCEPT !.cont = TRUE], q.heap[ref].children[i + 1])

scanAt(q, ref, i) ==
    LET n == q.heap[ref]
    IN  IF ~q.cont THEN q
        ELSE IF isLeaf(n)
        THEN iter(q, n.rects[i + 1].min, n.rects[i + 1].max, n.items[i + 1])
        ELSE scan(q, n.children[i + 1])

scan(q, ref) ==
    Loop(LAMBDA q1, i : scanAt(q1, ref, i), q, 0, q.heap[ref].count - 1)

Scan(h, tr, stopAt) ==
    LET q0 == [heap |-> h, log |-> <<>>, stopAt |-> stopAt, cont |-> TRUE]
    IN  IF tr.root # nil THEN scan(q0, tr.root) ELSE q0

Bounds(tr) == <<tr.rect.min, tr.rect.max>>

\* a counter that is read but never advanced
AddUint64None(c, delta) == c

\* atomic.AddUint64(&cow, delta): one indivisible step that advances the
\* counter and yields its new value (the bounds keep it far below 2^64)
AddUint64(c, delta) == c + delta

\* a Copy that hands out no new versions: both trees keep the source's
CopyKeep(tr, cowv) == [tr |-> tr, tr2 |-> tr, cow |-> cowv]

\* Copy: the copy has the source's fields; the source and then the copy
\* take the next two values of the process-wide counter
Copy(tr, cowv) ==
    [tr  |-> [tr EXCEPT !.cow = AddUint64(cowv, 1)],
     tr2 |-> [tr EXCEPT !.cow = AddUint64(AddUint64(cowv, 1), 1)],
     cow |-> AddUint64(AddUint64(cowv, 1), 1)]

\* ------------------------------------------------------------------------
\* The state machine: a client that owns the trees and calls the API
\* ------------------------------------------------------------------------
VARIABLES
    heap,   \* the nodes allocated so far
    trees,  \* the tree structs the client holds: [cow, count, rect, root]
    cow,    \* the process-wide copy-on-write counter
    last,   \* the last call: its name, tree, arguments and results
    load,   \* the client's fill loop: its tree and the entries still to go
    nops,   \* the number of mutating calls, copies and fill loops so far
    valid,  \* per tree: every rectangle passed to it so far had min <= max
    threads \* per thread: its position in Copy and the versions it was given

vars == <<heap, trees, cow, last, load, nops, valid, threads>>

\* bounds of the exploration
MaxOps == 3
MaxTrees == 3
FarX == 9

pointEntry(x, data) == entry(<<x, 0>>, <<x, 0>>, data)

\* the client loops that fill a tree: maxEntries + 1 distinct points along
\* the x axis; two clusters, minEntries points at x = 0 followed by
\* maxEntries points at x = FarX; and the first maxEntries entries of the
\* two clusters, the last of which splits the root leaf
PointsLoad == [i \in 1..(maxEntries + 1) |-> pointEntry(i - 1, i - 1)]

SkewLoad ==
    [i \in 1..(maxEntries + minEntries) |->
        IF i <= minEntries THEN pointEntry(0, i - 1)
        ELSE pointEntry(FarX, i - 1)]

SplitLoad == SubSeq(SkewLoad, 1, maxEntries)

Loads == {PointsLoad, SkewLoad, SplitLoad}

\* entries the single calls draw from: a point both loads hold, a point
\* the skewed load holds, three valid rectangles of one payload, each
\* inside the one before and the last two with the same min[0], and a
\* rectangle with min > max on the x axis
ValidEntries ==
    {pointEntry(0, 0), pointEntry(FarX, minEntries),
     entry(<<0, 0>>, <<4, 3>>, 72), entry(<<1, 1>>, <<3, 2>>, 72),
     entry(<<1, 1>>, <<2, 2>>, 72)}

DegenerateEntries == {entry(<<3, 0>>, <<2, 0>>, 73)}

Entries == ValidEntries \cup DegenerateEntries

\* the <<old, new>> pairs Replace is called with: a point of the loads by
\* the innermost rectangle, the largest rectangle by the innermost, and
\* the middle rectangle and the degenerate one by a point no load holds
Replacements ==
    {<<pointEntry(0, 0), entry(<<1, 1>>, <<2, 2>>, 72)>>,
     <<entry(<<0, 0>>, <<4, 3>>, 72), entry(<<1, 1>>, <<2, 2>>, 72)>>,
     <<entry(<<1, 1>>, <<3, 2>>, 72), pointEntry(5, 74)>>,
     <<entry(<<3, 0>>, <<2, 0>>, 73), pointEntry(5, 74)>>}

validRect(min, max) == min[1] <= max[1] /\ min[2] <= max[2]

\* the targets of Search: a point, a strip along the x axis, and a
\* rectangle that touches the largest of the entries at one corner
Targets == {mkRect(<<0, 0>>, <<0, 0>>), mkRect(<<2, 0>>, <<FarX, 1>>),
            mkRect(<<4, 3>>, <<6, 4>>)}

StopAts == {0, 1, minEntries + 1}

noEntry == entry(<<0, 0>>, <<0, 0>>, empty)

noCall ==
    [op |-> "none", t |-> 0, old |-> noEntry, new |-> noEntry,
     target |-> zeroRect, stopAt |-> 0, removed |-> FALSE, log |-> <<>>,
     ret |-> <<>>]

idle == [t |-> 0, es |-> <<>>]

\* the threads that call Copy, and the tree structs they may come to hold
Threads == 2
MaxCopyTrees == 5

\* a thread outside Copy
parked == [pc |-> "idle", tr |-> 0, tr2 |-> 0, got |-> <<>>]

Init ==
    /\ heap = <<>>
    /\ trees = <<[cow |-> 0, count |-> 0, rect |-> zeroRect, root |-> nil]>>
    /\ cow = 0
    /\ last = noCall
    /\ load = idle
    /\ nops = 0
    /\ valid = <<TRUE>>
    /\ threads = [th \in 1..Threads |-> parked]

\* the client starts a loop that inserts a whole load into an empty tree
StartLoad(t, es) ==
    /\ load = idle
    /\ nops < MaxOps
    /\ trees[t].count = 0
    /\ load' = [t |-> t, es |-> es]
    /\ last' = [noCall EXCEPT !.op = "Load", !.t = t]
    /\ nops' = nops + 1
    /\ UNCHANGED <<heap, trees, cow, valid, threads>>

\* one pass of the client's loop: it inserts the next entry of the load
LoadStep ==
    /\ load # idle
    /\ \E e \in {Head(load.es)} :
         /\ \E r \in {Insert(heap, trees[load.t], e.min, e.max, e.data)} :
              /\ heap' = r.heap
              /\ trees' = [trees EXCEPT ![load.t] = r.tr]
         /\ last' = [noCall EXCEPT !.op = "Insert", !.t = load.t, !.new = e]
         /\ valid' = [valid EXCEPT
                         ![load.t] = @ /\ validRect(e.min, e.max)]
    /\ load' = IF Len(load.es) = 1 THEN idle
               ELSE [load EXCEPT !.es = Tail(load.es)]
    /\ UNCHANGED <<cow, nops, threads>>

DoInsert(t, e) ==
    /\ load = idle
    /\ nops < MaxOps
    /\ \E r \in {Insert(heap, trees[t], e.min, e.max, e.data)} :
         /\ heap' = r.heap
         /\ trees' = [trees EXCEPT ![t] = r.tr]
    /\ last' = [noCall EXCEPT !.op = "Insert", !.t = t, !.new = e]
    /\ valid' = [valid EXCEPT ![t] = @ /\ validRect(e.min, e.max)]
    /\ nops' = nops + 1
    /\ UNCHANGED <<cow, load, threads>>

DoDelete(t, e) ==
    /\ load = idle
    /\ nops < MaxOps
    /\ \E r \in {delete(heap, trees[t], e.min, e.max, e.data)} :
         /\ heap' = r.heap
         /\ trees' = [trees EXCEPT ![t] = r.tr]
         /\ last' = [noCall EXCEPT !.op = "Delete", !.t = t, !.old = e,
                                   !.removed = r.removed]
    /\ valid' = [valid EXCEPT ![t] = @ /\ validRect(e.min, e.max)]
    /\ nops' = nops + 1
    /\ UNCHANGED <<cow, load, threads>>

DoReplace(t, old, new) ==
    /\ load = idle
    /\ nops < MaxOps
    /\ \E r \in {Replace(heap, trees[t], old.min, old.max, old.data,
                         new.min, new.max, new.data)} :
         /\ heap' = r.heap
         /\ trees' = [trees EXCEPT ![t] = r.tr]
    /\ last' = [noCall EXCEPT !.op = "Replace", !.t = t, !.old = old,
                              !.new = new]
    /\ valid' = [valid EXCEPT ![t] = @ /\ validRect(old.min, old.max)
                                       /\ validRect(new.min, new.max)]
    /\ nops' = nops + 1
    /\ UNCHANGED <<cow, load, threads>>

DoCopy(t) ==
    /\ load = idle
    /\ nops < MaxOps
    /\ Len(trees) < MaxTrees
    /\ \E r \in {Copy(trees[t], cow)} :
         /\ trees' = Append([trees EXCEPT ![t] = r.tr], r.tr2)
         /\ cow' = r.cow
    /\ last' = [noCall EXCEPT !.op = "Copy", !.t = t]
    /\ valid' = Append(valid, valid[t])
    /\ nops' = nops + 1
    /\ UNCHANGED <<heap, load, threads>>

DoSearch(t, target, stopAt) ==
    /\ load = idle
    /\ \E q \in {Search(heap, trees[t], target.min, target.max, stopAt)} :
         /\ heap' = q.heap
         /\ last' = [noCall EXCEPT !.op = "Search", !.t = t,
                                   !.target = target, !.stopAt = stopAt,
                                   !.log = q.log]
    /\ UNCHANGED <<trees, cow, load, nops, valid, threads>>

DoScan(t, stopAt) ==
    /\ load = idle
    /\ \E q \in {Scan(heap, trees[t], stopAt)} :
         /\ heap' = q.heap
         /\ last' = [noCall EXCEPT !.op = "Scan", !.t = t,
                                   !.stopAt = stopAt, !.log = q.log]
    /\ UNCHANGED <<trees, cow, load, nops, valid, threads>>

DoLen(t) ==
    /\ load = idle
    /\ last' = [noCall EXCEPT !.op = "Len", !.t = t,
                              !.ret = <<TreeLen(trees[t])>>]
    /\ UNCHANGED <<heap, trees, cow, load, nops, valid, threads>>

DoBounds(t) ==
    /\ load = idle
    /\ last' = [noCall EXCEPT !.op = "Bounds", !.t = t,
                              !.ret = Bounds(trees[t])]
    /\ UNCHANGED <<heap, trees, cow, load, nops, valid, threads>>

\* a client that mutates and copies its trees
Next ==
    \/ LoadStep
    \/ \E t \in DOMAIN trees, es \in Loads : StartLoad(t, es)
    \/ \E t \in DOMAIN trees, e \in Entries : DoInsert(t, e)
    \/ \E t \in DOMAIN trees, e \in Entries : DoDelete(t, e)
    \/ \E t \in DOMAIN trees, r \in Replacements : DoReplace(t, r[1], r[2])
    \/ \E t \in DOMAIN trees : DoCopy(t)

Spec == Init /\ [][Next]_vars

\* a client that also queries its trees between the other calls
NextQuery ==
    \/ Next
    \/ \E t \in DOMAIN trees, target \in Targets, stopAt \in StopAts :
           DoSearch(t, target, stopAt)
    \/ \E t \in DOMAIN trees, stopAt \in StopAts : DoScan(t, stopAt)
    \/ \E t \in DOMAIN trees : DoLen(t)
    \/ \E t \in DOMAIN trees : DoBounds(t)

QuerySpec == Init /\ [][NextQuery]_vars

\* ------------------------------------------------------------------------
\* splitNode on its own: the full nodes it is handed and the one call
\* ------------------------------------------------------------------------
SplitGap == 200

\* a full node, in min[0] order as nodeInsert keeps it: k of its
\* maxEntries rectangles lie near the low edge of the longer axis and the
\* others near the high edge, SplitGap away; along axis 0 the low ones
\* come first, along axis 1 they are scattered over the slots.  With
\* axis = 2 every rectangle spans the node's whole extent on axis 0.  The
\* rectangles are all different, and so are the items (the children,
\* which splitNode does not follow).
fullRect(axis, k, i) ==
    IF axis = 0
    THEN mkRect(<<(IF i <= k THEN i ELSE SplitGap + i), i % 4>>,
                <<(IF i <= k THEN i ELSE SplitGap + i) + (i % 2), i % 4>>)
    ELSE IF axis = 1
    THEN mkRect(<<i \div 8,
                  IF (i * 7) % maxEntries < k THEN i ELSE SplitGap + i>>,
                <<i \div 8,
                  (IF (i * 7) % maxEntries < k THEN i ELSE SplitGap + i)
                      + (i % 2)>>)
    ELSE mkRect(<<0, i \div 2>>, <<SplitGap, i \div 2 + (i % 2)>>)

fullNode(axis, k, isleaf) ==
    [newNode(0, isleaf) EXCEPT
        !.count = maxEntries,
        !.rects = [i \in 1..maxEntries |-> fullRect(axis, k, i)],
        !.items = IF isleaf THEN [i \in 1..maxEntries |-> i] ELSE <<>>,
        !.children = IF isleaf THEN <<>>
                     ELSE [i \in 1..maxEntries |-> maxEntries + i]]

SplitInit ==
    /\ \E axis \in {0, 1, 2}, k \in 0..maxEntries, isleaf \in BOOLEAN :
           heap = <<fullNode(axis, k, isleaf)>>
    /\ trees = <<>>
    /\ cow = 0
    /\ last = noCall
    /\ load = idle
    /\ nops = 0
    /\ valid = <<>>
    /\ threads = [th \in 1..Threads |-> parked]

\* the caller hands splitNode the node, its rectangle and nothing else;
\* the node stays where it is and the new sibling is allocated
DoSplit ==
    /\ last.op = "none"
    /\ heap[1].count = maxEntries
    /\ \E sp \in {splitNode(rect(heap[1]), heap[1],
                             newNode(cow, isLeaf(heap[1])))} :
           heap' = <<sp.left, sp.right>>
    /\ last' = [noCall EXCEPT !.op = "Split"]
    /\ UNCHANGED <<trees, cow, load, nops, valid, threads>>

SplitNext == DoSplit

SplitSpec == SplitInit /\ [][SplitNext]_vars

\* ------------------------------------------------------------------------
\* Copy called by several threads, each on a tree no other thread is using.
\* A thread's position in Copy is state: the three statements of Copy are
\* three steps, and the steps of different threads interleave.
\* ------------------------------------------------------------------------

\* the tree structs a thread inside Copy is working on
inCopy(th) ==
    IF threads[th].pc = "idle" THEN {} ELSE {threads[th].tr, threads[th].tr2}

\* the trees some caller holds: all but the copies not yet returned
Live ==
    {t \in DOMAIN trees :
        \A th \in DOMAIN threads :
            threads[th].pc = "idle" \/ threads[th].tr2 # t}

\* every program starts with a fresh tree for each thread
CopyInit ==
    /\ heap = <<>>
    /\ trees = [t \in 1..Threads |->
                   [cow |-> 0, count |-> 0, rect |-> zeroRect, root |-> nil]]
    /\ cow = 0
    /\ last = noCall
    /\ load = idle
    /\ nops = 0
    /\ valid = [t \in 1..Threads |-> TRUE]
    /\ threads = [th \in 1..Threads |-> parked]

\* tr2 := new(RTreeG2[N, T]); *tr2 = *tr
CopyNew(th, t) ==
    /\ threads[th].pc = "idle"
    /\ Len(trees) < MaxCopyTrees
    /\ t \in Live
    /\ \A o \in DOMAIN threads : t \notin inCopy(o)
    /\ trees' = Append(trees, trees[t])
    /\ valid' = Append(valid, valid[t])
    /\ threads' = [threads EXCEPT ![th].pc = "copied", ![th].tr = t,
                                  ![th].tr2 = Len(trees) + 1]
    /\ UNCHANGED <<heap, cow, last, load, nops>>

\* tr.cow = atomic.AddUint64(&cow, 1)
CopyStampSource(th) ==
    /\ threads[th].pc = "copied"
    /\ cow' = AddUint64(cow, 1)
    /\ trees' = [trees EXCEPT ![threads[th].tr].cow = cow']
    /\ threads' = [threads EXCEPT ![th].pc = "stamped",
                                  ![th].got = Append(@, cow')]
    /\ UNCHANGED <<heap, last, load, nops, valid>>

\* tr2.cow = atomic.AddUint64(&cow, 1); return tr2
CopyStampCopy(th) ==
    /\ threads[th].pc = "stamped"
    /\ cow' = AddUint64(cow, 1)
    /\ trees' = [trees EXCEPT ![threads[th].tr2].cow = cow']
    /\ threads' = [threads EXCEPT ![th].pc = "idle",
                                  ![th].got = Append(@, cow')]
    /\ last' = [noCall EXCEPT !.op = "Copy", !.t = threads[th].tr]
    /\ UNCHANGED <<heap, load, nops, valid>>

CopyNext ==
    \/ \E th \in DOMAIN threads, t \in DOMAIN trees : CopyNew(th, t)
    \/ \E th \in DOMAIN threads : CopyStampSource(th)
    \/ \E th \in DOMAIN threads : CopyStampCopy(th)

CopySpec == CopyInit /\ [][CopyNext]_vars

\* ------------------------------------------------------------------------
\* A tree and its clone, each mutated by its own thread: the first thread
\* has filled a tree and copied it, and from then on every call on the
\* source is the first thread's and every call on the clone the second's,
\* in any order
\* ------------------------------------------------------------------------
MaxPairOps == 3

\* the load the first thread fills its tree with: the skewed one less its
\* last entry, which leaves the second leaf one entry short of a split
NearFullLoad == SubSeq(SkewLoad, 1, maxEntries + minEntries - 1)

PairLoads == {NearFullLoad}

\* the heap and the tree a client's loop over the load leaves behind
loaded(es) ==
    Loop(LAMBDA st, i :
             Insert(st.heap, st.tr, es[i].min, es[i].max, es[i].data),
         [heap |-> <<>>,
          tr   |-> [cow |-> 0, count |-> 0, rect |-> zeroRect, root |-> nil]],
         1, Len(es))

PairInit ==
    /\ \E es \in PairLoads :
         \E r \in {loaded(es)} :
           \E c \in {Copy(r.tr, 0)} :
             /\ heap = r.heap
             /\ trees = <<c.tr, c.tr2>>
             /\ cow = c.cow
    /\ last = noCall
    /\ load = idle
    /\ nops = 0
    /\ valid = <<TRUE, TRUE>>
    /\ threads = [th \in 1..Threads |-> parked]

PairNext ==
    \/ \E t \in DOMAIN trees, e \in Entries :
           nops < MaxPairOps /\ DoInsert(t, e)
    \/ \E t \in DOMAIN trees, e \in Entries :
           nops < MaxPairOps /\ DoDelete(t, e)
    \/ \E t \in DOMAIN trees, r \in Replacements :
           nops < MaxPairOps /\ DoReplace(t, r[1], r[2])

PairSpec == PairInit /\ [][PairNext]_vars

\* ------------------------------------------------------------------------
\* What a tree holds, read off the heap: the leaves reachable from the
\* root, their slots below count, and the bag of the entries in them
\* ------------------------------------------------------------------------
RECURSIVE nodeRefs(_, _)
nodeRefs(h, ref) ==
    IF isLeaf(h[ref]) THEN {ref}
    ELSE {ref} \cup UNION {nodeRefs(h, h[ref].children[i]) :
                               i \in 1..h[ref].count}

treeRefs(h, tr) == IF tr.root = nil THEN {} ELSE nodeRefs(h, tr.root)

leafSlots(h, tr) ==
    UNION {{<<ref, i>> : i \in 1..h[ref].count} :
              ref \in {r \in treeRefs(h, tr) : isLeaf(h[r])}}

entryAt(h, s) ==
    entry(h[s[1]].rects[s[2]].min, h[s[1]].rects[s[2]].max,
          h[s[1]].items[s[2]])

\* (when no two slots hold the same entry every entry counts once)
bagOf(h, slots) ==
    Then({entryAt(h, s) : s \in slots}, LAMBDA es :
    IF Cardinality(es) = Cardinality(slots) THEN [e \in es |-> 1]
    ELSE [e \in es |-> Cardinality({s \in slots : entryAt(h, s) = e})])

Stored(h, tr) == Then(leafSlots(h, tr), LAMBDA slots : bagOf(h, slots))

logBag(log) ==
    Then({log[i] : i \in DOMAIN log}, LAMBDA es :
    IF Cardinality(es) = Len(log) THEN [e \in es |-> 1]
    ELSE [e \in es |-> Cardinality({i \in DOMAIN log : log[i] = e})])

\* the bag of the entries a full Scan of the tree hands to its visitor
Yield(h, tr) == Then(Scan(h, tr, 0).log, LAMBDA log : logBag(log))

Mutations == {"Insert", "Delete", "Replace"}

\* ------------------------------------------------------------------------
\* C1  Clone isolation.  A Copy gives the new tree the entries, Len and
\* Bounds of its source and leaves the source's as they are; every later
\* Insert, Delete or Replace on one tree leaves the Scan output, Len and
\* Bounds of every other tree as they were, whichever trees were copied
\* from which.
\* ------------------------------------------------------------------------
SameContents(h1, tr1, h2, tr2) ==
    /\ Yield(h1, tr1) = Yield(h2, tr2)
    /\ TreeLen(tr1) = TreeLen(tr2)
    /\ Bounds(tr1) = Bounds(tr2)

CloneIsolationStep ==
    /\ \A u \in DOMAIN trees :
           (last'.op \in Mutations /\ u # last'.t)
               => SameContents(heap', trees'[u], heap, trees[u])
    /\ last'.op = "Copy" =>
           /\ Len(trees') = Len(trees) + 1
           /\ \A u \in DOMAIN trees :
                  SameContents(heap', trees'[u], heap, trees[u])
           /\ SameContents(heap', trees'[Len(trees')], heap, trees[last'.t])

CloneIsolation == [][CloneIsolationStep]_vars

\* a tree was mutated while it held a branch root and shared leaves with
\* another tree whose contents now differ from its own
CloneIsolationWitness ==
    /\ last.op \in Mutations
    /\ \E u \in DOMAIN trees :
           /\ u # last.t
           /\ trees[u].root # nil
           /\ trees[last.t].root # nil
           /\ ~isLeaf(heap[trees[u].root])
           /\ treeRefs(heap, trees[u]) \cap treeRefs(heap, trees[last.t]) # {}
           /\ Stored(heap, trees[u]) # Stored(heap, trees[last.t])

\* ------------------------------------------------------------------------
\* C2  Search completeness.  On a tree that has only ever been passed
\* rectangles with min <= max, a Search whose visitor always returns true
\* hands the visitor exactly the stored entries whose rectangle overlaps
\* the target, touching edges included, each as often as it is stored.
\* ------------------------------------------------------------------------
Overlaps(e, q) ==
    /\ e.min[1] <= q.max[1] /\ q.min[1] <= e.max[1]
    /\ e.min[2] <= q.max[2] /\ q.min[2] <= e.max[2]

restrict(B, P(_)) == [e \in {x \in DOMAIN B : P(x)} |-> B[e]]

SearchComplete ==
    (last.op = "Search" /\ last.stopAt = 0 /\ valid[last.t]) =>
        logBag(last.log) = restrict(Stored(heap, trees[last.t]),
                                    LAMBDA e : Overlaps(e, last.target))

\* a complete Search of a tree with a branch root that reported some of
\* the entries and not all of them
SearchCompleteWitness ==
    /\ last.op = "Search" /\ last.stopAt = 0 /\ valid[last.t]
    /\ trees[last.t].root # nil
    /\ ~isLeaf(heap[trees[last.t].root])
    /\ Len(last.log) > 1
    /\ Len(last.log) < TreeLen(trees[last.t])

\* ------------------------------------------------------------------------
\* C3  Delete of a present entry.  When the tree stores an entry with
\* exactly the rectangle and the payload passed to Delete, the call
\* reports a removal and the tree then stores what it stored before less
\* one entry that has this payload and a rectangle inside the one passed.
\* ------------------------------------------------------------------------
Inside(x, e) ==
    /\ e.min[1] <= x.min[1] /\ x.max[1] <= e.max[1]
    /\ e.min[2] <= x.min[2] /\ x.max[2] <= e.max[2]

Matches(x, e) == x.data = e.data /\ Inside(x, e)

DeletePresentStep ==
    last'.op = "Delete" =>
        \E pre \in {Stored(heap, trees[last'.t])} :
            BagIn(last'.old, pre) =>
                /\ last'.removed
                /\ \E x \in DOMAIN pre :
                       /\ Matches(x, last'.old)
                       /\ Stored(heap', trees'[last'.t]) =
                              pre (-) SetToBag({x})

DeletePresent == [][DeletePresentStep]_vars

\* the point (0, 0) with payload 0 was deleted from the tree of the skewed
\* load: its leaf fell below minEntries and was taken out of the root,
\* and its other entries are back in the tree
DeletePresentWitness ==
    /\ last.op = "Delete" /\ last.removed /\ last.old = pointEntry(0, 0)
    /\ TreeLen(trees[last.t]) = maxEntries + minEntries - 1
    /\ heap[trees[last.t].root].count = 2
    /\ \E ref \in DOMAIN heap :
           /\ ref \notin treeRefs(heap, trees[last.t])
           /\ isLeaf(heap[ref])
           /\ heap[ref].count = minEntries - 1

\* ------------------------------------------------------------------------
\* C4  Delete of an absent entry.  When the tree stores no entry that has
\* the payload passed to Delete and a rectangle inside the one passed,
\* the call reports no removal and leaves Len, Bounds and the entries a
\* Scan yields as they were.
\* ------------------------------------------------------------------------
DeleteAbsentStep ==
    (/\ last'.op = "Delete"
     /\ \A x \in DOMAIN Stored(heap, trees[last'.t]) :
            ~Matches(x, last'.old)) =>
        /\ ~last'.removed
        /\ SameContents(heap', trees'[last'.t], heap, trees[last'.t])

DeleteAbsent == [][DeleteAbsentStep]_vars

\* a Delete that went down a tree with a branch root, whose rect contains
\* the rectangle passed, and removed nothing
DeleteAbsentWitness ==
    /\ last.op = "Delete" /\ ~last.removed
    /\ trees[last.t].root # nil
    /\ ~isLeaf(heap[trees[last.t].root])
    /\ Inside(last.old, trees[last.t].rect)

\* ------------------------------------------------------------------------
\* C5  Replace law.  As claimed: when the old entry is stored, Replace
\* leaves the tree with one fewer of the old entry and one more of the
\* new one, and when it is not stored, Replace leaves the tree as it was;
\* Len is unchanged either way.
\* ------------------------------------------------------------------------
ReplaceLawStep ==
    last'.op = "Replace" =>
        \E pre \in {Stored(heap, trees[last'.t])} :
            /\ TreeLen(trees'[last'.t]) = TreeLen(trees[last'.t])
            /\ Stored(heap', trees'[last'.t]) =
                   IF BagIn(last'.old, pre)
                   THEN (pre (-) SetToBag({last'.old})) (+)
                        SetToBag({last'.new})
                   ELSE pre

ReplaceLawAmendedStep ==
    last'.op = "Replace" =>
        \E pre \in {Stored(heap, trees[last'.t])},
           post \in {Stored(heap', trees'[last'.t])} :
            /\ TreeLen(trees'[last'.t]) = TreeLen(trees[last'.t])
            /\ BagIn(last'.old, pre) =>
                   \E x \in DOMAIN pre :
                       /\ Matches(x, last'.old)
                       /\ post = (pre (-) SetToBag({x})) (+)
                                 SetToBag({last'.new})
            /\ (\A x \in DOMAIN pre : ~Matches(x, last'.old)) => post = pre
            /\ \/ post = pre
               \/ \E x \in DOMAIN pre :
                      /\ Matches(x, last'.old)
                      /\ post = (pre (-) SetToBag({x})) (+)
                                SetToBag({last'.new})

CountInvariant ==
    \A t \in DOMAIN trees :
        \E log \in {Scan(heap, trees[t], 0).log} :
            /\ TreeLen(trees[t]) = Len(log)
            /\ logBag(log) = Stored(heap, trees[t])

\* a Replace on the tree of the skewed load took the point (0, 0) out of
\* its leaf, which fell below minEntries: the leaf's deep count was
\* subtracted, its entries were inserted again, and then the new entry
CountInvariantWitness ==
    /\ last.op = "Replace" /\ last.old = pointEntry(0, 0)
    /\ TreeLen(trees[last.t]) = maxEntries + minEntries
    /\ heap[trees[last.t].root].count = 2

\* ------------------------------------------------------------------------
\* C7  Bounds.  In every state the Bounds of a tree that stores entries
\* are the least and the greatest coordinates of the stored rectangles
\* on each axis, and the Bounds of a tree that stores none are
\* ((0, 0), (0, 0)).
\* ------------------------------------------------------------------------
least(S) == CHOOSE x \in S : \A y \in S : x <= y

greatest(S) == CHOOSE x \in S : \A y \in S : y <= x

mbr(es) ==
    <<<<least({e.min[1] : e \in es}), least({e.min[2] : e \in es})>>,
      <<greatest({e.max[1] : e \in es}), greatest({e.max[2] : e \in es})>>>>

BoundsInvariant ==
    \A t \in DOMAIN trees :
        \E es \in {DOMAIN Stored(heap, trees[t])} :
            Bounds(trees[t]) = IF es = {} THEN <<<<0, 0>>, <<0, 0>>>>
                               ELSE mbr(es)

\* the point (0, 0) was deleted from the tree of the points load, whose
\* Bounds now start at x = 1
BoundsInvariantWitness ==
    /\ last.op = "Delete" /\ last.removed
    /\ TreeLen(trees[last.t]) = maxEntries
    /\ Bounds(trees[last.t])[1] = <<1, 0>>

\* ------------------------------------------------------------------------
\* C8  Early stop.  A Search or a Scan whose visitor returns false on its
\* k-th call calls the visitor k times at most.
\* ------------------------------------------------------------------------
EarlyStop ==
    (last.op \in {"Search", "Scan"} /\ last.stopAt # 0) =>
        Len(last.log) <= last.stopAt

\* the visitor returned false inside a leaf that is not the first child
\* of the root, in a tree that had more to yield
EarlyStopWitness ==
    /\ last.op \in {"Search", "Scan"}
    /\ last.stopAt = minEntries + 1
    /\ Len(last.log) = last.stopAt
    /\ ~isLeaf(heap[trees[last.t].root])
    /\ heap[heap[trees[last.t].root].children[1]].count < last.stopAt
    /\ TreeLen(trees[last.t]) >= maxEntries

\* ------------------------------------------------------------------------
\* C9  Degenerate rectangles stay deletable.  When the tree stores an
\* entry whose rectangle has min > max on an axis, a Delete with the same
\* rectangle and payload reports a removal, Len goes down by one, and an
\* entry with this payload and a rectangle inside the one passed is gone.
\* ------------------------------------------------------------------------
DegenerateDeleteStep ==
    (last'.op = "Delete" /\ ~validRect(last'.old.min, last'.old.max)) =>
        \E pre \in {Stored(heap, trees[last'.t])} :
            BagIn(last'.old, pre) =>
                /\ last'.removed
                /\ TreeLen(trees'[last'.t]) = TreeLen(trees[last'.t]) - 1
                /\ \E x \in DOMAIN pre :
                       /\ Matches(x, last'.old)
                       /\ Stored(heap', trees'[last'.t]) =
                              pre (-) SetToBag({x})

DegenerateDelete == [][DegenerateDeleteStep]_vars

\* a rectangle with min > max was deleted from a tree with a branch root
DegenerateDeleteWitness ==
    /\ last.op = "Delete" /\ last.removed
    /\ ~validRect(last.old.min, last.old.max)
    /\ trees[last.t].root # nil
    /\ ~isLeaf(heap[trees[last.t].root])

\* ------------------------------------------------------------------------
\* C10  Queries are read-only.  A Search, Scan, Len or Bounds step leaves
\* every tree struct and every node as it was, and allocates no node.
\* ------------------------------------------------------------------------
Queries == {"Search", "Scan", "Len", "Bounds"}

ReadOnlyStep == last'.op \in Queries => (heap' = heap /\ trees' = trees)

ReadOnly == [][ReadOnlyStep]_vars

\* a Search or Scan visited entries of a tree with a branch root that
\* shares its root node with another tree
ReadOnlyWitness ==
    /\ last.op \in {"Search", "Scan"}
    /\ Len(last.log) > 1
    /\ ~isLeaf(heap[trees[last.t].root])
    /\ \E u \in DOMAIN trees :
           u # last.t /\ trees[u].root = trees[last.t].root

\* ------------------------------------------------------------------------
\* C11  Copy-on-write ownership stamp.  An Insert loads the root through
\* the tree's root slot with cowLoad; the claim is that the node the slot
\* refers to afterwards carries the tree's own stamp, so that the next
\* mutation of the tree finds it owned.  (The node copy() returns is a
\* copy of the whole header of the node it was made from, stamp included:
\* after a Copy of the tree the root an Insert leaves behind carries the
\* stamp of the node it was copied from.)
\* ------------------------------------------------------------------------
OwnershipStampStep ==
    last'.op = "Insert" =>
        heap'[trees'[last'.t].root].cow = trees'[last'.t].cow

OwnershipStamp == [][OwnershipStampStep]_vars

\* ------------------------------------------------------------------------
\* C12  MBR tightness.  In every state, in every branch reachable from the
\* root of a tree, the rectangle of every slot below count is the minimum
\* bounding rectangle of the leaf entries reachable under the slot's
\* child: its min is the least min and its max the greatest max of their
\* rectangles, on each axis.
\* ------------------------------------------------------------------------
branchRefs(h, tr) == {r \in treeRefs(h, tr) : ~isLeaf(h[r])}

rectsUnder(h, ref) ==
    UNION {{h[r].rects[i] : i \in 1..h[r].count} :
              r \in {x \in nodeRefs(h, ref) : isLeaf(h[x])}}

MBRTight ==
    \A t \in DOMAIN trees :
        \A b \in branchRefs(heap, trees[t]) :
            \A i \in 1..heap[b].count :
                <<heap[b].rects[i].min, heap[b].rects[i].max>> =
                    mbr(rectsUnder(heap, heap[b].children[i]))

\* the point (0, 0) was deleted from the first leaf of the tree of the
\* points load: the rectangle of the root's first slot now starts at x = 1
MBRTightWitness ==
    /\ last.op = "Delete" /\ last.removed /\ last.old = pointEntry(0, 0)
    /\ TreeLen(trees[last.t]) = maxEntries
    /\ ~isLeaf(heap[trees[last.t].root])
    /\ heap[trees[last.t].root].count = 2
    /\ heap[trees[last.t].root].rects[1].min = <<1, 0>>

\* ------------------------------------------------------------------------
\* C13  Capacity.  In every state, in every tree with a root, the root
\* has between 1 and maxEntries entries and every other node reachable
\* from it between minEntries and maxEntries.
\* ------------------------------------------------------------------------
Capacity ==
    \A t \in DOMAIN trees :
        \A r \in treeRefs(heap, trees[t]) :
            /\ heap[r].count <= maxEntries
            /\ heap[r].count >=
                   (IF r = trees[t].root THEN 1 ELSE minEntries)

\* a Delete took an entry out of the leaf of minEntries entries of a
\* root with two children: the leaf was taken out of the root, the root's
\* other child became the root, and the leaf's other entries were
\* inserted into it
CapacityWitness ==
    /\ last.op = "Delete" /\ last.removed
    /\ TreeLen(trees[last.t]) = maxEntries - 1
    /\ isLeaf(heap[trees[last.t].root])
    /\ heap[trees[last.t].root].count = maxEntries - 1
    /\ \E ref \in DOMAIN heap :
           /\ ~isLeaf(heap[ref])
           /\ heap[ref].count = 1
           /\ heap[ref].children[1] = trees[last.t].root

\* ------------------------------------------------------------------------
\* C14  Sibling order.  In every state, in every node reachable from the
\* root of a tree, leaf or branch, the min[0] of the rectangles in the
\* slots below count never decreases from one slot to the next.
\* ------------------------------------------------------------------------
SiblingOrder ==
    \A t \in DOMAIN trees :
        \A r \in treeRefs(heap, trees[t]) :
            \A i \in 1..(heap[r].count - 1) :
                heap[r].rects[i].min[1] <= heap[r].rects[i + 1].min[1]

\* the last Insert of the two clusters filled a leaf under the root and
\* split it: the new sibling is in the root's slot next to it, and a
\* Delete has since shrunk the rectangle of another slot
SiblingOrderWitness ==
    /\ last.op = "Delete" /\ last.removed
    /\ last.old = entry(<<0, 0>>, <<4, 3>>, 72)
    /\ TreeLen(trees[last.t]) = maxEntries + minEntries
    /\ ~isLeaf(heap[trees[last.t].root])
    /\ heap[trees[last.t].root].count = 3
    /\ heap[trees[last.t].root].rects[1].max = <<0, 0>>
    /\ heap[trees[last.t].root].rects[2].min[1] = FarX

\* ------------------------------------------------------------------------
\* C15  Root collapse.  In every state the root of a tree is a leaf or a
\* branch with two children at least.
\* ------------------------------------------------------------------------
RootCollapsed ==
    \A t \in DOMAIN trees :
        trees[t].root # nil =>
            \/ isLeaf(heap[trees[t].root])
            \/ heap[trees[t].root].count >= 2

\* a Replace took the point (0, 0) out of the leaf of minEntries entries
\* of a root with two children: the root, left with one child, gave way
\* to that child, which the reinserted entries and the new entry filled
\* and split under a new root
RootCollapsedWitness ==
    /\ last.op = "Replace" /\ last.old = pointEntry(0, 0)
    /\ TreeLen(trees[last.t]) = maxEntries
    /\ ~isLeaf(heap[trees[last.t].root])
    /\ heap[trees[last.t].root].count = 2
    /\ \E ref \in DOMAIN heap :
           /\ ref \notin treeRefs(heap, trees[last.t])
           /\ ~isLeaf(heap[ref])
           /\ heap[ref].count = 1
           /\ heap[ref].children[1] \in treeRefs(heap, trees[last.t])

\* ------------------------------------------------------------------------
\* C16  Root presence.  In every state a tree's count is 0 exactly when
\* it has no root, and a root has one entry at least.
\* ------------------------------------------------------------------------
RootPresence ==
    \A t \in DOMAIN trees :
        /\ trees[t].count = 0 <=> trees[t].root = nil
        /\ trees[t].root # nil => heap[trees[t].root].count >= 1

\* a Delete took the last entry out of a tree and dropped its root,
\* while a copy of the tree still holds the entry
RootPresenceWitness ==
    /\ last.op = "Delete" /\ last.removed
    /\ trees[last.t].count = 0
    /\ trees[last.t].root = nil
    /\ \E u \in DOMAIN trees :
           /\ u # last.t
           /\ trees[u].count = 1
           /\ BagIn(last.old, Stored(heap, trees[u]))

\* ------------------------------------------------------------------------
\* C17  Split post-condition.  When a node with maxEntries entries is
\* split, the node and the new sibling are of the kind the node was, each
\* has between minEntries and maxEntries - 1 entries, and together they
\* hold the entries the node held, each rectangle with its own item or
\* child.
\* ------------------------------------------------------------------------
slotsOf(n) ==
    {<<n.rects[i], IF isLeaf(n) THEN n.items[i] ELSE n.children[i]>> :
        i \in 1..n.count}

SplitPostStep ==
    last'.op = "Split" =>
        /\ \A j \in {1, 2} :
               /\ heap'[j].kind = heap[1].kind
               /\ heap'[j].count >= minEntries
               /\ heap'[j].count <= maxEntries - 1
        /\ heap'[1].count + heap'[2].count = maxEntries
        /\ slotsOf(heap'[1]) \cup slotsOf(heap'[2]) = slotsOf(heap[1])

SplitPost == [][SplitPostStep]_vars

\* every rectangle of a leaf spanned the leaf's extent on the split axis
\* and snapped to the new sibling, which gave minEntries of them back
SplitPostWitness ==
    /\ last.op = "Split"
    /\ isLeaf(heap[1])
    /\ heap[1].count = minEntries
    /\ heap[2].count = maxEntries - minEntries
    /\ \A j \in {1, 2} : \A i \in 1..heap[j].count :
           heap[j].rects[i].min[1] = 0 /\ heap[j].rects[i].max[1] = SplitGap

\* C18  Version uniqueness.  Threads call Copy on trees no other thread is
\* using, in any interleaving of the statements of Copy.  Every value an
\* atomic add hands to a Copy is handed out once, over all threads and all
\* calls; every tree's version is 0 or one of these values; and two trees
\* that callers hold have the same version only if it is 0, the version of
\* a tree that has not been through Copy.
gotAt == {<<th, i>> : th \in DOMAIN threads, i \in 1..(2 * MaxCopyTrees)}

stampsGiven ==
    {p \in gotAt : p[2] <= Len(threads[p[1]].got)}

VersionFresh ==
    /\ \A p \in stampsGiven, q \in stampsGiven :
           p # q => threads[p[1]].got[p[2]] # threads[q[1]].got[q[2]]
    /\ \A t \in DOMAIN trees :
           \/ trees[t].cow = 0
           \/ \E p \in stampsGiven : threads[p[1]].got[p[2]] = trees[t].cow
    /\ \A a \in Live, b \in Live :
           (a # b /\ trees[a].cow = trees[b].cow) => trees[a].cow = 0

\* two threads have been through Copy with their atomic adds taking
\* turns, and the first has then copied the copy it was given
VersionFreshWitness ==
    /\ threads[1].pc = "idle" /\ threads[2].pc = "idle"
    /\ threads[1].got = <<1, 3, 5, 6>>
    /\ threads[2].got = <<2, 4>>
    /\ trees[3].cow = 5 /\ trees[5].cow = 6

\* C18 as stated: no two trees that callers hold have the same version
VersionUnique ==
    \A a \in Live, b \in Live : a # b => trees[a].cow # trees[b].cow

\* C19  No write to a shared node.  Whatever the order in which the
\* callers mutate their trees (Insert, Delete, Replace), clones of each
\* other or not, a mutation of one tree leaves every other tree struct as
\* it was, and every node it changes was, when the call began, reachable
\* from the mutated tree and from no other tree; every other node it
\* writes is one it allocated itself.
written == {ref \in DOMAIN heap : heap'[ref] # heap[ref]}

NoSharedWriteStep ==
    last'.op \in Mutations =>
        /\ \A u \in DOMAIN trees : u # last'.t => trees'[u] = trees[u]
        /\ \A ref \in written :
               /\ ref \in treeRefs(heap, trees[last'.t])
               /\ \A u \in DOMAIN trees :
                      u # last'.t => ref \notin treeRefs(heap, trees[u])

NoSharedWrite == [][NoSharedWriteStep]_vars

\* a tree with a leaf one entry short of a split was copied; one call on
\* it copied that leaf and split the copy, a later call on it wrote the
\* sibling the split had made, which carries the tree's version, where it
\* was, so that it no longer has the maxEntries - minEntries entries the
\* split gave it; then an Insert on the clone copied the clone's root and
\* a leaf.  The two trees still have a leaf in common.
NoSharedWriteWitness ==
    /\ last.op = "Insert" /\ last.t = 2
    /\ \E ref \in treeRefs(heap, trees[1]) :
           /\ isLeaf(heap[ref])
           /\ heap[ref].cow = trees[1].cow
           /\ heap[ref].count # maxEntries - minEntries
    /\ trees[1].root \notin treeRefs(heap, trees[2])
    /\ trees[2].root \notin treeRefs(heap, trees[1])
    /\ treeRefs(heap, trees[1]) \cap treeRefs(heap, trees[2]) # {}

\* C20  Balance.  After any sequence of Insert, Delete, Replace and Copy,
\* in every tree with a root, every path from the root ends at a leaf
\* (no branch is without children) and all the leaves are at one depth;
\* a node above that depth is then a branch.
RECURSIVE leafDepths(_, _, _)
leafDepths(h, ref, d) ==
    IF isLeaf(h[ref]) THEN {d}
    ELSE UNION {leafDepths(h, h[ref].children[i], d + 1) :
                    i \in 1..h[ref].count}

Balance ==
    \A t \in DOMAIN trees :
        trees[t].root # nil =>
            /\ Cardinality(leafDepths(heap, trees[t].root, 0)) = 1
            /\ \A ref \in treeRefs(heap, trees[t]) :
                   ~isLeaf(heap[ref]) => heap[ref].count >= 1

\* a Delete took an entry from a leaf of minEntries entries in a tree of
\* three leaves: the leaf was removed, its other entries were inserted
\* one by one, and the root has the two other leaves as its children
BalanceWitness ==
    /\ last.op = "Delete" /\ last.removed
    /\ TreeLen(trees[last.t]) = maxEntries + minEntries - 1
    /\ heap[trees[last.t].root].count = 2
    /\ leafDepths(heap, trees[last.t].root, 0) = {1}

====
